---- MODULE Spec2Model ----
(***************************************************************************)
(* serverless-athena-plugin (src/index.js): a plugin whose hooks validate  *)
(* Athena table definitions, and create / drop the tables by submitting    *)
(* DDL queries to the Athena service and polling each query execution.     *)
(*                                                                         *)
(* The model has three parts:                                              *)
(*   - the plugin: the five hook handlers, createAthenaTable,              *)
(*     deleteAthenaTable, waitForAthenaQuery and the bluebird Promise.map  *)
(*     batch with its concurrency limit;                                   *)
(*   - the Athena service: accepts or rejects a submission, moves an       *)
(*     execution QUEUED -> RUNNING -> terminal and applies DROP / CREATE;  *)
(*   - the host framework: runs the lifecycle events of one command after  *)
(*     the other and stops at the first hook that fails.                   *)
(***************************************************************************)
EXTENDS Integers, Sequences, FiniteSets, TLC

----------------------------------------------------------------------------
(* Bounds *)

\* the largest number of tables in custom.athenaTables
MaxTables == 2

\* the largest number of status checks of one query execution
MaxChecks == 3

----------------------------------------------------------------------------
(* Configuration: custom.athenaTables *)

\* keys of custom.athenaTables and the TableName of the table at each position
KeyNames == <<"k1", "k2", "k3", "k4">>
TableNames == <<"athena_plugintest_1", "athena_plugintest_2", "athena_plugintest_3",
                "athena_plugintest_4">>

\* a key given with --table that custom.athenaTables does not have
UnknownKey == "nokey"

\* what JavaScript renders for a missing TableName in the DROP template
Undefined == "undefined"

\* the {token} a DDLSubstitutions key stands for in the DDL text
Braced == [t \in {"TableName", "S3Location"} |->
             IF t = "TableName" THEN "{TableName}" ELSE "{S3Location}"]

\* contents of the DDL file of a table; the text is a sequence of words, a
\* {token} placeholder being one word
FileContent(path) == <<"CREATE", "{TableName}">>

\* the shapes of table definition the configuration is drawn from; an absent
\* field is the empty (falsy) value
Shapes == {"inline", "file", "neither"}

TableDef(shape, i) ==
  [ DDL              |-> IF shape = "inline" THEN <<"CREATE", TableNames[i]>> ELSE << >>,
    DDLFile          |-> IF shape = "file" THEN KeyNames[i] ELSE "",
    OutputLocation   |-> "s3://out",
    TableName        |-> TableNames[i],
    DatabaseName     |-> "db",
    DDLSubstitutions |-> IF shape = "file"
                         THEN << <<"TableName", <<TableNames[i]>> >> >> ELSE << >> ]

\* custom.athenaTables: an ordered mapping, entry i under key KeyNames[i]
Configs ==
  UNION { { [i \in 1..n |-> TableDef(s[i], i)] : s \in [1..n -> Shapes] } : n \in 0..MaxTables }

\* getAthenaTables / Object.entries: the entries in insertion order
getAthenaTables(cfg) == [i \in 1..Len(cfg) |-> <<KeyNames[i], cfg[i]>>]

\* a name every JavaScript object inherits from Object.prototype, and the
\* value found under it: the function Object, none of whose properties is a
\* field of a table definition
InheritedKey == "constructor"
ObjectMember ==
  [ DDL |-> << >>, DDLFile |-> "", OutputLocation |-> "", TableName |-> "",
    DatabaseName |-> "", DDLSubstitutions |-> << >> ]

\* the member of custom.athenaTables at a position: its own entries in
\* insertion order, then the inherited one
Member(cfg, i) ==
  IF i <= Len(cfg) THEN getAthenaTables(cfg)[i] ELSE <<InheritedKey, ObjectMember>>

\* athenaTables[this.options.table]: the position of the member the property
\* access finds, own or inherited, 0 when it finds none (undefined)
Lookup(cfg, key) ==
  IF \E i \in 1..Len(cfg) : KeyNames[i] = key
  THEN CHOOSE i \in 1..Len(cfg) : KeyNames[i] = key
  ELSE IF key = InheritedKey THEN Len(cfg) + 1
  ELSE 0

----------------------------------------------------------------------------
(* validateAthenaTable *)

NoError == [kind |-> "none", table |-> "", reason |-> ""]
ValidationError(tableName, reason) ==
  [kind |-> "validation", table |-> tableName, reason |-> reason]

\* a validateAthenaTable without the check for both DDL sources
validateAthenaTableNoBoth(tableName, table) ==
  IF table.DDLFile = "" /\ table.DDL = << >>
  THEN [error |-> ValidationError(tableName, "must include one of a DDLFile or DDL entry"),
        warned |-> FALSE]
  ELSE IF table.OutputLocation = ""
  THEN [error |-> ValidationError(tableName, "must include OutputLocation"),
        warned |-> FALSE]
  ELSE IF table.TableName = ""
  THEN [error |-> ValidationError(tableName, "must include TableName"),
        warned |-> FALSE]
  ELSE [error |-> NoError, warned |-> table.DatabaseName = ""]

\* the outcome of validateAthenaTable(tableName, table): the Error it throws
\* (kind "none" when it returns a resolved promise) and whether it logged the
\* DatabaseName warning
validateAthenaTable(tableName, table) ==
  IF table.DDLFile = "" /\ table.DDL = << >>
  THEN [error |-> ValidationError(tableName, "must include one of a DDLFile or DDL entry"),
        warned |-> FALSE]
  ELSE IF table.DDLFile # "" /\ table.DDL # << >>
  THEN [error |-> ValidationError(tableName, "must include one of a DDLFile or DDL entry, not both"),
        warned |-> FALSE]
  ELSE IF table.OutputLocation = ""
  THEN [error |-> ValidationError(tableName, "must include OutputLocation"),
        warned |-> FALSE]
  ELSE IF table.TableName = ""
  THEN [error |-> ValidationError(tableName, "must include TableName"),
        warned |-> FALSE]
  ELSE [error |-> NoError, warned |-> table.DatabaseName = ""]

----------------------------------------------------------------------------
(* DDL text *)

\* GetSubstitution: what the replacement string of String.prototype.replace
\* stands for. A replacement is a sequence of pieces; the piece $$ stands for
\* $, $& for the matched text, $` for the text before the match and $' for
\* the text after it; any other piece stands for itself
RECURSIVE GetSubstitution(_, _, _, _)
GetSubstitution(value, matched, before, after) ==
  IF value = << >> THEN << >>
  ELSE LET piece == Head(value)
           rest == GetSubstitution(Tail(value), matched, before, after)
       IN CASE piece = "$$" -> <<"$">> \o rest
            [] piece = "$&" -> matched \o rest
            [] piece = "$`" -> before \o rest
            [] piece = "$'" -> after \o rest
            [] OTHER -> <<piece>> \o rest

\* String.prototype.replace(pattern, value) with a string pattern: the first
\* occurrence of the pattern is replaced by what the replacement string
\* stands for, the rest of the text is kept
ReplaceFirst(text, pattern, value) ==
  IF \E p \in 1..Len(text) : text[p] = pattern
  THEN LET p == CHOOSE q \in 1..Len(text) :
                  /\ text[q] = pattern
                  /\ \A r \in 1..(q - 1) : text[r] # pattern
           before == SubSeq(text, 1, p - 1)
           after == SubSeq(text, p + 1, Len(text))
       IN before \o GetSubstitution(value, <<pattern>>, before, after) \o after
  ELSE text

\* Object.entries(table.DDLSubstitutions).reduce(replace, ddl)
RECURSIVE Substitute(_, _)
Substitute(ddl, subs) ==
  IF subs = << >> THEN ddl
  ELSE Substitute(ReplaceFirst(ddl, Braced[Head(subs)[1]], Head(subs)[2]), Tail(subs))

\* the QueryString of deleteAthenaTable
DropQuery(table, ifExists) ==
  <<"DROP", "TABLE", IF ifExists THEN "IF EXISTS" ELSE "",
    IF table.TableName = "" THEN Undefined ELSE table.TableName>>

\* the params of startQueryExecution
QueryParams(queryString, table) ==
  [QueryString |-> queryString, OutputLocation |-> table.OutputLocation,
   Database |-> table.DatabaseName]

----------------------------------------------------------------------------
(* The Athena service *)

NonTerminal == {"QUEUED", "RUNNING"}
Terminal == {"SUCCEEDED", "FAILED", "CANCELLED"}

AllTableNames == {TableNames[i] : i \in 1..Len(TableNames)}

\* what executing a query does to the set of tables, and the state it ends in:
\* DROP TABLE fails on an absent table unless it carries IF EXISTS; CREATE
\* needs a table name (a placeholder left in the text is malformed DDL)
Execute(queryString, present) ==
  IF Len(queryString) = 4 /\ queryString[1] = "DROP"
  THEN IF queryString[4] \in present
       THEN [state |-> "SUCCEEDED", tables |-> present \ {queryString[4]}]
       ELSE IF queryString[3] = "IF EXISTS"
       THEN [state |-> "SUCCEEDED", tables |-> present]
       ELSE [state |-> "FAILED", tables |-> present]
  ELSE IF Len(queryString) = 2 /\ queryString[1] = "CREATE" /\ queryString[2] \in AllTableNames
  THEN [state |-> "SUCCEEDED", tables |-> present \cup {queryString[2]}]
  ELSE [state |-> "FAILED", tables |-> present]

----------------------------------------------------------------------------
(* State *)

VARIABLES
  athenaTables,   \* custom.athenaTables of the service
  options,        \* this.options: [table |-> key or ""]
  lifecycle,      \* the hooks the host framework runs, in order
  pos,            \* the position in lifecycle of the hook that runs (0: none yet)
  outcome,        \* of the hook at pos: "none", "pending", "resolved", "rejected"
  error,          \* the rejection reason of the hook at pos
  kind,           \* the per-table operation of the hook: "none", "create", "delete"
  entries,        \* the positions of athenaTables the hook operates on
  ops,            \* per position: the state of its createAthenaTable / deleteAthenaTable
  queue,          \* Promise.map: the positions waiting for a free slot
  inFlight,       \* Promise.map: the number of mapper promises pending
  executions,     \* Athena: the query executions, by QueryExecutionId
  remoteTables,   \* Athena: the tables that exist
  initialTables,  \* Athena: the tables that existed at the start
  warnings,       \* serverless.cli.log: the keys a DatabaseName warning was logged for
  settled,        \* the waitForAthenaQuery that settled last: the execution, the
                  \* states its status checks returned, and how it settled
  anomaly         \* a submission or status check was refused, a file could not be
                  \* read, or an execution failed or was cancelled for no reason
                  \* of the query

vars == <<athenaTables, options, lifecycle, pos, outcome, error, kind, entries, ops,
          queue, inFlight, warnings, executions, remoteTables, initialTables, settled,
          anomaly>>

config == <<athenaTables, options, lifecycle, initialTables>>

\* this.hooks
HookValidate == "before:deploy:deploy"
HookCreate == "after:deploy:deploy"
HookDelete == "after:remove:remove"
HookDeployCmd == "deploy:athenatables:deploy"
HookRemoveCmd == "remove:athenatables:remove"

\* the runs of the host framework: sls deploy followed by sls remove (a run of
\* sls deploy alone is its beginning), sls remove, sls deploy athenatables and
\* sls remove athenatables
Lifecycles ==
  { <<HookValidate, HookCreate, HookDelete>>, <<HookDelete>>, <<HookDeployCmd>>,
    <<HookRemoveCmd>> }

N == Len(athenaTables)

\* the positions an operation can run for: the own entries and the inherited
\* member
Slots == 1..N + 1

IdleOp == [pc |-> "idle", id |-> 0, observed |-> << >>]

NoWait == [id |-> 0, observed |-> << >>, result |-> "none", reason |-> NoError]

\* the state after construction, for a configuration cfg
InitWith(cfg) ==
  /\ athenaTables = cfg
  /\ options \in { [table |-> k] : k \in {""} \cup {KeyNames[i] : i \in 1..Len(cfg)}
                                                \cup {UnknownKey, InheritedKey} }
  /\ lifecycle \in Lifecycles
  /\ (options.table # "" => lifecycle \in {<<HookDeployCmd>>, <<HookRemoveCmd>>})
  /\ pos = 0
  /\ outcome = "none"
  /\ error = NoError
  /\ kind = "none"
  /\ entries = << >>
  /\ ops = [i \in 1..Len(cfg) + 1 |-> IdleOp]
  /\ queue = << >>
  /\ inFlight = 0
  /\ executions = << >>
  /\ warnings = {}
  /\ remoteTables \in SUBSET {TableNames[i] : i \in 1..Len(cfg)}
  /\ initialTables = remoteTables
  /\ settled = NoWait
  /\ anomaly = FALSE

Init == \E cfg \in Configs : InitWith(cfg)

----------------------------------------------------------------------------
(* Promise.map with a concurrency limit, and the per-table operations *)

\* a map that runs two mapper promises at a time
ConcurrencyTwo == 1 + 1

\* { concurrency: 1 } of createAthenaTables and deleteAthenaTables
Concurrency == 1

SubmitError == [kind |-> "submit", table |-> "", reason |-> "startQueryExecution"]
ReadError == [kind |-> "io", table |-> "", reason |-> "readFile"]
\* reject(`Query status ${state}`)
StatusError(state) == [kind |-> "status", table |-> "", reason |-> state]
\* new Error(`Athena table not found: ${table}`), table being undefined
NotFoundError == [kind |-> "notfound", table |-> "", reason |-> Undefined]

\* the part of the state a hook's promises live in
Current == [ops |-> ops, queue |-> queue, inFlight |-> inFlight,
            outcome |-> outcome, error |-> error, warnings |-> warnings]

Fresh == [ops |-> [i \in Slots |-> IdleOp], queue |-> << >>, inFlight |-> 0,
          outcome |-> "pending", error |-> NoError, warnings |-> warnings]

\* table operations that all validate, deleteAthenaTable included
CallTableOperationValidating(k, i, st) ==
  LET e == Member(athenaTables, i)
      v == validateAthenaTable(e[1], e[2])
  IN IF v.error.kind # "none"
     THEN [st EXCEPT !.ops[i].pc = "failed", !.outcome = "rejected", !.error = v.error]
     ELSE [st EXCEPT !.ops[i].pc = "start", !.inFlight = @ + 1,
                     !.warnings = IF v.warned THEN @ \cup {e[1]} ELSE @]

\* a createAthenaTable that goes on to its DROP without validating
CallTableOperationUnchecked(k, i, st) ==
  [st EXCEPT !.ops[i].pc = "start", !.inFlight = @ + 1]

\* the synchronous part of createAthenaTable(key, table) (k = "create": it
\* validates, and a validation error is thrown) or of deleteAthenaTable(key,
\* table) (k = "delete": no validation); the operation then waits to submit
\* its DROP query
CallTableOperation(k, i, st) ==
  LET e == Member(athenaTables, i)
      v == validateAthenaTable(e[1], e[2])
  IN IF k = "create" /\ v.error.kind # "none"
     THEN [st EXCEPT !.ops[i].pc = "failed", !.outcome = "rejected", !.error = v.error]
     ELSE [st EXCEPT !.ops[i].pc = "start", !.inFlight = @ + 1,
                     !.warnings = IF k = "create" /\ v.warned THEN @ \cup {e[1]} ELSE @]

\* bluebird: Promise.map walks the entries in order; it calls the mapper while
\* fewer than Concurrency mapper promises are pending and queues the rest; a
\* mapper that throws rejects the map and ends the walk
RECURSIVE MapIterate(_, _, _)
MapIterate(k, idxs, st) ==
  IF idxs = << >> THEN st
  ELSE LET i == Head(idxs)
       IN MapIterate(k, Tail(idxs),
            IF st.outcome = "rejected" THEN st
            ELSE IF st.inFlight >= Concurrency
            THEN [st EXCEPT !.queue = Append(@, i), !.ops[i].pc = "queued"]
            ELSE CallTableOperation(k, i, st))

\* bluebird: when a mapper promise is fulfilled the queue is drained, taking
\* the position queued last (queue.pop()), while a slot is free and the map is
\* not settled
RECURSIVE MapDrain(_, _)
MapDrain(k, st) ==
  IF st.queue # << >> /\ st.inFlight < Concurrency /\ st.outcome = "pending"
  THEN LET i == st.queue[Len(st.queue)]
       IN MapDrain(k, CallTableOperation(k, i,
                        [st EXCEPT !.queue = SubSeq(@, 1, Len(@) - 1)]))
  ELSE st

\* the hook's promise is fulfilled when every operation it waits for is
AllDone(idxs, st) ==
  IF st.outcome = "pending" /\ \A p \in 1..Len(idxs) : st.ops[idxs[p]].pc = "done"
  THEN [st EXCEPT !.outcome = "resolved"]
  ELSE st

\* the promise of the operation at position i is fulfilled
OpFulfilled(k, idxs, i, st) ==
  IF st.outcome # "pending"
  THEN [st EXCEPT !.ops[i].pc = "done"]
  ELSE AllDone(idxs, MapDrain(k, [st EXCEPT !.ops[i].pc = "done", !.inFlight = @ - 1]))

\* a map that goes on with the queued positions after a rejection and is
\* rejected once nothing is left to run
OpRejectedContinue(i, err, st) ==
  IF st.outcome # "pending"
  THEN [st EXCEPT !.ops[i].pc = "failed"]
  ELSE LET s1 == MapDrain(kind, [st EXCEPT !.ops[i].pc = "failed", !.inFlight = @ - 1,
                                           !.error = err])
       IN IF s1.outcome = "pending" /\ s1.inFlight = 0
          THEN [s1 EXCEPT !.outcome = "rejected"] ELSE s1

\* the promise of the operation at position i is rejected: the first rejection
\* rejects the hook's promise; nothing is drained from the queue
OpRejected(i, err, st) ==
  IF st.outcome # "pending"
  THEN [st EXCEPT !.ops[i].pc = "failed"]
  ELSE [st EXCEPT !.ops[i].pc = "failed", !.outcome = "rejected", !.error = err]

\* createAthenaTables(tables) / deleteAthenaTables(tables)
MapTables(k, idxs) == AllDone(idxs, MapIterate(k, idxs, Fresh))

AllPositions == [i \in 1..N |-> i]

\* Promise.all(Object.entries(athenaTables), mapper): Promise.all takes the
\* array only; the entries are plain values, so the promise is fulfilled and
\* the mapper is never called
PromiseAll(values, mapper) == [Fresh EXCEPT !.outcome = "resolved"]

Store(st) ==
  /\ ops' = st.ops
  /\ queue' = st.queue
  /\ inFlight' = st.inFlight
  /\ outcome' = st.outcome
  /\ error' = st.error
  /\ warnings' = st.warnings

----------------------------------------------------------------------------
(* The hooks *)

\* the hook the host framework invokes next: the first of the lifecycle, then
\* each one once the one before it has succeeded
NextHook ==
  IF pos < Len(lifecycle) /\ (pos = 0 \/ outcome = "resolved")
  THEN lifecycle[pos + 1] ELSE ""

Invoke(k, idxs, st) ==
  /\ pos' = pos + 1
  /\ kind' = k
  /\ entries' = idxs
  /\ Store(st)
  /\ UNCHANGED <<config, executions, remoteTables, anomaly, settled>>

validateAthenaTablesGlobal ==
  /\ NextHook = HookValidate
  /\ IF N > 0
     THEN Invoke("none", << >>,
                 PromiseAll(getAthenaTables(athenaTables), "validateAthenaTable"))
     ELSE Invoke("none", << >>, [Fresh EXCEPT !.outcome = "resolved"])

createAthenaTablesGlobal ==
  /\ NextHook = HookCreate
  /\ IF N > 0
     THEN Invoke("create", AllPositions, MapTables("create", AllPositions))
     ELSE Invoke("none", << >>, [Fresh EXCEPT !.outcome = "resolved"])

deleteAthenaTablesGlobal ==
  /\ NextHook = HookDelete
  /\ IF N > 0
     THEN Invoke("delete", AllPositions, MapTables("delete", AllPositions))
     ELSE Invoke("none", << >>, [Fresh EXCEPT !.outcome = "resolved"])

\* a command that ignores --table and always runs over the whole mapping
TableCommandAll(k) ==
  IF N > 0
  THEN Invoke(k, AllPositions, MapTables(k, AllPositions))
  ELSE Invoke("none", << >>, [Fresh EXCEPT !.outcome = "resolved"])

\* deployAthenaTablesDeploy (k = "create") and removeAthenaTablesRemove
\* (k = "delete"). With --table the operation is called directly: the hook's
\* promise is the operation's, and a validation Error is thrown out of the
\* hook itself, which the host framework takes as the hook's failure.
TableCommand(k) ==
  IF options.table # ""
  THEN LET i == Lookup(athenaTables, options.table)
       IN IF i # 0
          THEN Invoke(k, <<i>>, AllDone(<<i>>, CallTableOperation(k, i, Fresh)))
          ELSE Invoke("none", << >>,
                      [Fresh EXCEPT !.outcome = "rejected", !.error = NotFoundError])
  ELSE IF N > 0
  THEN Invoke(k, AllPositions, MapTables(k, AllPositions))
  ELSE Invoke("none", << >>, [Fresh EXCEPT !.outcome = "resolved"])

deployAthenaTablesDeploy ==
  /\ NextHook = HookDeployCmd
  /\ TableCommand("create")

removeAthenaTablesRemove ==
  /\ NextHook = HookRemoveCmd
  /\ TableCommand("delete")

----------------------------------------------------------------------------
(* deleteAthenaTable, createAthenaTable, waitForAthenaQuery *)

\* the key and the definition an operation at position i was called with
Key(i) == Member(athenaTables, i)[1]
Table(i) == Member(athenaTables, i)[2]

\* a deleteAthenaTable that ignores ifExists and never writes IF EXISTS
deleteAthenaTableNever(table, ifExists) == QueryParams(DropQuery(table, FALSE), table)

\* a deleteAthenaTable that always writes IF EXISTS
deleteAthenaTableAlways(table, ifExists) == QueryParams(DropQuery(table, TRUE), table)

\* the query deleteAthenaTable(tableName, table, ifExists) submits;
\* createAthenaTable passes ifExists = true, every other caller leaves the
\* default (false)
deleteAthenaTable(table, ifExists) == QueryParams(DropQuery(table, ifExists), table)

\* the query createAthenaTable submits: the DDL text read from DDLFile or
\* taken from DDL, with the DDLSubstitutions applied
createAthenaTable(table) ==
  LET ddl == IF table.DDLFile # "" THEN FileContent(table.DDLFile) ELSE table.DDL
  IN QueryParams(IF table.DDLSubstitutions # << >>
                 THEN Substitute(ddl, table.DDLSubstitutions) ELSE ddl, table)

\* a submission that is made a second time: two executions of the same
\* query, the operation waiting for the second
SubmittedTwice(i, params, pc) ==
  /\ executions' = executions \o << [params |-> params, state |-> "QUEUED"],
                                    [params |-> params, state |-> "QUEUED"] >>
  /\ ops' = [ops EXCEPT ![i] = [pc |-> pc, id |-> Len(executions) + 2,
                                observed |-> << >>]]
  /\ UNCHANGED <<config, pos, outcome, error, kind, entries, queue, inFlight, warnings,
                 remoteTables, anomaly, settled>>

\* startQueryExecution(params) is accepted: a new execution, QUEUED, whose id
\* the operation at position i then waits for
Submitted(i, params, pc) ==
  /\ executions' = Append(executions, [params |-> params, state |-> "QUEUED"])
  /\ ops' = [ops EXCEPT ![i] = [pc |-> pc, id |-> Len(executions) + 1,
                                observed |-> << >>]]
  /\ UNCHANGED <<config, pos, outcome, error, kind, entries, queue, inFlight, warnings,
                 remoteTables, anomaly, settled>>

\* a rejection that first puts back the tables that were there at the start
RejectsRestoring(i, err) ==
  /\ Store(OpRejected(i, err, Current))
  /\ anomaly' = TRUE
  /\ remoteTables' = initialTables
  /\ UNCHANGED <<config, pos, kind, entries, executions, settled>>

\* the promise of the operation at position i is rejected
Rejects(i, err) ==
  /\ Store(OpRejected(i, err, Current))
  /\ anomaly' = TRUE
  /\ UNCHANGED <<config, pos, kind, entries, executions, remoteTables, settled>>

SubmitDrop(i) ==
  /\ ops[i].pc = "start"
  /\ Submitted(i, deleteAthenaTable(Table(i), kind = "create"), "dropWait")

SubmitDropRejected(i) ==
  /\ ops[i].pc = "start"
  /\ Rejects(i, SubmitError)

ReadFileFails(i) ==
  /\ ops[i].pc = "resolveDDL"
  /\ Table(i).DDLFile # ""
  /\ Rejects(i, ReadError)

\* a createAthenaTable that does not wait for its pre-clean DROP
SubmitCreateNoWait(i) ==
  /\ ops[i].pc \in {"dropWait", "resolveDDL"}
  /\ kind = "create"
  /\ Submitted(i, createAthenaTable(Table(i)), "createWait")

SubmitCreate(i) ==
  /\ ops[i].pc = "resolveDDL"
  /\ Submitted(i, createAthenaTable(Table(i)), "createWait")

SubmitCreateRejected(i) ==
  /\ ops[i].pc = "resolveDDL"
  /\ Rejects(i, SubmitError)

Waiting(i) == ops[i].pc \in {"dropWait", "createWait"}

\* a switch that has no case for CANCELLED and polls again
switchStateNoCancelled(s) ==
  CASE s = "SUCCEEDED" -> "resolve"
    [] s = "FAILED" -> "reject"
    [] OTHER -> "setTimeout"

\* the switch of isQueryComplete on response.QueryExecution.Status.State
switchState(s) ==
  CASE s = "SUCCEEDED" -> "resolve"
    [] s \in {"RUNNING", "QUEUED"} -> "setTimeout"
    [] OTHER -> "reject"

\* an isQueryComplete that gives up: after MaxChecks - 1 checks that returned
\* QUEUED or RUNNING the next such check rejects the wait
StatusCheckCapped(i) ==
  /\ ops[i].pc \in {"dropWait", "createWait"}
  /\ LET s == executions[ops[i].id].state
         seen == Append(ops[i].observed, s)
         over == [ops EXCEPT ![i].observed = << >>]
     IN IF s \in {"RUNNING", "QUEUED"} /\ Len(ops[i].observed) < MaxChecks - 1
        THEN /\ ops' = [ops EXCEPT ![i].observed = seen]
             /\ UNCHANGED <<queue, inFlight, outcome, error, warnings, settled>>
        ELSE IF s = "SUCCEEDED"
        THEN /\ settled' = [id |-> ops[i].id, observed |-> seen, result |-> "resolved",
                            reason |-> NoError]
             /\ IF ops[i].pc = "dropWait" /\ kind = "create"
                THEN /\ ops' = [over EXCEPT ![i].pc = "resolveDDL"]
                     /\ UNCHANGED <<queue, inFlight, outcome, error, warnings>>
                ELSE Store(OpFulfilled(kind, entries, i, [Current EXCEPT !.ops = over]))
        ELSE /\ settled' = [id |-> ops[i].id, observed |-> seen, result |-> "rejected",
                            reason |-> StatusError(s)]
             /\ Store(OpRejected(i, StatusError(s), [Current EXCEPT !.ops = over]))
  /\ UNCHANGED <<config, pos, kind, entries, executions, remoteTables, anomaly>>

\* isQueryComplete: one getQueryExecution and the switch on the state it
\* returns. The poll loop has no limit; the model lets a wait see at most
\* MaxChecks states, the last of them terminal.
StatusCheck(i) ==
  /\ Waiting(i)
  /\ LET s == executions[ops[i].id].state
         seen == Append(ops[i].observed, s)
         over == [ops EXCEPT ![i].observed = << >>]
     IN IF switchState(s) = "setTimeout"
        THEN \* setTimeout(isQueryComplete, 1000)
             /\ Len(ops[i].observed) < MaxChecks - 1
             /\ ops' = [ops EXCEPT ![i].observed = seen]
             /\ UNCHANGED <<queue, inFlight, outcome, error, warnings, settled>>
        ELSE IF switchState(s) = "resolve"
        THEN \* resolve(id)
             /\ settled' = [id |-> ops[i].id, observed |-> seen, result |-> "resolved",
                            reason |-> NoError]
             /\ IF ops[i].pc = "dropWait" /\ kind = "create"
                THEN /\ ops' = [over EXCEPT ![i].pc = "resolveDDL"]
                     /\ UNCHANGED <<queue, inFlight, outcome, error, warnings>>
                ELSE Store(OpFulfilled(kind, entries, i, [Current EXCEPT !.ops = over]))
        ELSE \* reject(`Query status ${state}`)
             /\ settled' = [id |-> ops[i].id, observed |-> seen, result |-> "rejected",
                            reason |-> StatusError(s)]
             /\ Store(OpRejected(i, StatusError(s), [Current EXCEPT !.ops = over]))
  /\ UNCHANGED <<config, pos, kind, entries, executions, remoteTables, anomaly>>

\* getQueryExecution itself is rejected: the chain inside isQueryComplete has
\* no rejection handler and neither resolve nor reject of the wait is called
StatusCheckError(i) ==
  /\ Waiting(i)
  /\ ops' = [ops EXCEPT ![i].pc = "hung"]
  /\ anomaly' = TRUE
  /\ UNCHANGED <<config, pos, outcome, error, kind, entries, queue, inFlight, warnings,
                 executions, remoteTables, settled>>

----------------------------------------------------------------------------
(* The Athena service at work *)

RemoteRun(id) ==
  /\ executions[id].state = "QUEUED"
  /\ executions' = [executions EXCEPT ![id].state = "RUNNING"]
  /\ UNCHANGED <<config, pos, outcome, error, kind, entries, ops, queue, inFlight, warnings,
                 remoteTables, anomaly, settled>>

RemoteFinish(id) ==
  /\ executions[id].state = "RUNNING"
  /\ LET r == Execute(executions[id].params.QueryString, remoteTables)
     IN /\ executions' = [executions EXCEPT ![id].state = r.state]
        /\ remoteTables' = r.tables
  /\ UNCHANGED <<config, pos, outcome, error, kind, entries, ops, queue, inFlight, warnings,
                 anomaly, settled>>

RemoteAbort(id, s) ==
  /\ executions[id].state \in NonTerminal
  /\ executions' = [executions EXCEPT ![id].state = s]
  /\ anomaly' = TRUE
  /\ UNCHANGED <<config, pos, outcome, error, kind, entries, ops, queue, inFlight, warnings,
                 remoteTables, settled>>

----------------------------------------------------------------------------
(* Specification *)

Next ==
  \/ validateAthenaTablesGlobal
  \/ createAthenaTablesGlobal
  \/ deleteAthenaTablesGlobal
  \/ deployAthenaTablesDeploy
  \/ removeAthenaTablesRemove
  \/ \E i \in Slots : SubmitDrop(i)
  \/ \E i \in Slots : SubmitDropRejected(i)
  \/ \E i \in Slots : ReadFileFails(i)
  \/ \E i \in Slots : SubmitCreate(i)
  \/ \E i \in Slots : SubmitCreateRejected(i)
  \/ \E i \in Slots : StatusCheck(i)
  \/ \E i \in Slots : StatusCheckError(i)
  \/ \E id \in 1..Len(executions) : RemoteRun(id)
  \/ \E id \in 1..Len(executions) : RemoteFinish(id)
  \/ \E id \in 1..Len(executions), s \in {"FAILED", "CANCELLED"} : RemoteAbort(id, s)

Spec == Init /\ [][Next]_vars

----------------------------------------------------------------------------
(* Vocabulary of the properties *)

\* a definition the specification calls invalid: neither or both DDL sources,
\* no OutputLocation, or no TableName
Invalid(table) ==
  \/ table.DDL = << >> /\ table.DDLFile = ""
  \/ table.DDL # << >> /\ table.DDLFile # ""
  \/ table.OutputLocation = ""
  \/ table.TableName = ""

SomeInvalid == \E i \in 1..N : Invalid(Table(i))

\* the hook h has been invoked and is the one the state variables describe
Ran(h) == pos >= 1 /\ lifecycle[pos] = h

IsDrop(id) == executions[id].params.QueryString[1] = "DROP"
IsCreate(id) == executions[id].params.QueryString[1] = "CREATE"

\* the operation at position i has been called and has not come to an end
InProgress(i) == ops[i].pc \in {"start", "dropWait", "resolveDDL", "createWait", "hung"}

\* the operation at position i has been called
Started(i) == ops[i].pc \notin {"idle", "queued"}

----------------------------------------------------------------------------
(* C1 *)

\* C1: when the pre-deploy hook validateAthenaTablesGlobal has run over a
\* non-empty table mapping, it has failed if some definition is invalid and
\* succeeded if every definition is valid.
\* The code passes the validator as a second argument to Promise.all, which
\* ignores it: TLC finds the hook fulfilled for a mapping with an invalid
\* definition.
C1_PreDeployRejectsInvalid ==
  (Ran(HookValidate) /\ N > 0)
    => outcome = (IF SomeInvalid THEN "rejected" ELSE "resolved")

----------------------------------------------------------------------------
(* C2 *)

\* C2: in a deploy lifecycle (pre-deploy hook, then post-deploy create-all)
\* over a mapping with an invalid definition, no query is ever submitted to
\* the service (and so no execution exists whose status could be checked).
\* Because the pre-deploy hook validates nothing (C1), create-all runs and
\* submits the queries of the valid tables it reaches before the invalid one.
C2_NoQueryWhenInvalid ==
  (lifecycle[1] = HookValidate /\ SomeInvalid) => executions = << >>

----------------------------------------------------------------------------
(* C3 *)

Last(seq) == seq[Len(seq)]

\* the wait for execution id was settled last, fulfilled on a SUCCEEDED check
ObservedSucceeded(id) ==
  /\ settled.id = id
  /\ settled.result = "resolved"
  /\ Last(settled.observed) = "SUCCEEDED"

\* C3: createAthenaTable submits its DROP (with IF EXISTS) before its CREATE:
\* every CREATE execution directly follows a DROP IF EXISTS execution that has
\* SUCCEEDED, so no CREATE follows a DROP that was rejected, FAILED or
\* CANCELLED; an operation past its DROP has had that DROP, the query of its
\* own table, observed SUCCEEDED by the poller; and while an operation waits
\* for its DROP nothing has been submitted after it.
C3_DropBeforeCreate ==
  /\ \A id \in 1..Len(executions) :
       IsCreate(id) =>
         /\ id > 1
         /\ IsDrop(id - 1)
         /\ executions[id - 1].params.QueryString[3] = "IF EXISTS"
         /\ executions[id - 1].state = "SUCCEEDED"
  /\ \A i \in Slots :
       (kind = "create" /\ ops[i].pc \in {"resolveDDL", "createWait"}) =>
         LET d == IF ops[i].pc = "resolveDDL" THEN ops[i].id ELSE ops[i].id - 1
         IN /\ d >= 1
            /\ executions[d].params = deleteAthenaTable(Table(i), TRUE)
            /\ ObservedSucceeded(d)
  /\ \A i \in Slots :
       (kind = "create" /\ ops[i].pc = "dropWait") => ops[i].id = Len(executions)

\* a first table was dropped and created, and the DROP of the next table
\* failed or was cancelled, which ended its operation
C3_Witness ==
  /\ kind = "create"
  /\ Len(executions) = 3
  /\ IsDrop(1) /\ IsCreate(2) /\ IsDrop(3)
  /\ executions[3].state \in {"FAILED", "CANCELLED"}
  /\ \E i \in Slots : ops[i].pc = "failed" /\ ops[i].id = 3

----------------------------------------------------------------------------
(* C4 *)

\* C4: a wait that settled made exactly as many status checks as the states
\* s1..sn it was returned, s1..s(n-1) being QUEUED or RUNNING and sn the
\* terminal state of the execution; it was fulfilled if sn = SUCCEEDED and
\* rejected with `Query status sn` if sn is FAILED or CANCELLED; a wait that
\* goes on has been returned QUEUED and RUNNING only, and no wait goes on for
\* the execution whose terminal state was observed.
C4_PollerChecks ==
  /\ \A i \in Slots : \A p \in 1..Len(ops[i].observed) :
       ops[i].observed[p] \in NonTerminal
  /\ settled.result # "none" =>
       LET o == settled.observed
           n == Len(o)
       IN /\ n >= 1
          /\ \A p \in 1..(n - 1) : o[p] \in NonTerminal
          /\ o[n] \in Terminal
          /\ o[n] = executions[settled.id].state
          /\ o[n] = "SUCCEEDED" => settled.result = "resolved" /\ settled.reason = NoError
          /\ o[n] \in {"FAILED", "CANCELLED"} =>
               settled.result = "rejected" /\ settled.reason = StatusError(o[n])
  /\ \A i \in Slots : Waiting(i) => ops[i].id # settled.id

\* QUEUED, RUNNING, SUCCEEDED: fulfilled after exactly 3 checks
C4_Witness ==
  /\ settled.observed = <<"QUEUED", "RUNNING", "SUCCEEDED">>
  /\ settled.result = "resolved"

\* FAILED on the first check: rejected after exactly 1 check
C4_WitnessFailedFirst ==
  /\ settled.observed = <<"FAILED">>
  /\ settled.result = "rejected"

----------------------------------------------------------------------------
(* C5 *)

\* the hook runs createAthenaTables or deleteAthenaTables over the mapping
BatchHook == kind \in {"create", "delete"} /\ options.table = ""

\* an operation failed validation, had a submission rejected, could not read
\* its DDL file or saw its execution FAILED or CANCELLED
Failed == \E i \in Slots : ops[i].pc = "failed"

\* C5: in createAll and deleteAll, once a per-table operation has failed
\* (validation error, submission rejected, execution FAILED or CANCELLED) the
\* batch has a failed outcome, exactly one operation has failed, every other
\* operation is complete or was never started, and from then on no query is
\* submitted and no operation changes state: the remaining tables are never
\* attempted and nothing is undone for the completed ones.
C5_AbortOnFirstFailure ==
  /\ [](BatchHook /\ Failed =>
          /\ outcome = "rejected"
          /\ Cardinality({i \in Slots : ops[i].pc = "failed"}) = 1
          /\ \A i \in Slots : ops[i].pc \in {"failed", "done", "queued", "idle"})
  /\ [][BatchHook /\ Failed =>
          /\ Len(executions') = Len(executions)
          /\ \A i \in Slots : ops'[i].pc = ops[i].pc
          /\ remoteTables' = remoteTables
          /\ outcome' = "rejected"]_vars

\* createAll over two tables: the first submission (the DROP of the first
\* table) was rejected; the second table is still queued and no query exists
C5_Witness ==
  /\ BatchHook /\ kind = "create" /\ N = 2
  /\ outcome = "rejected" /\ error = SubmitError
  /\ ops[1].pc = "failed" /\ ops[2].pc = "queued"
  /\ executions = << >>

----------------------------------------------------------------------------
(* C6 *)

\* the executions an operation waits for: submitted, no terminal state
\* observed yet
InFlight ==
  {id \in 1..Len(executions) :
     \E i \in Slots : ops[i].pc \in {"dropWait", "createWait", "hung"} /\ ops[i].id = id}

\* C6: at most one table operation is in progress, at most one execution is
\* in flight (none is in a non-terminal state but the one waited for), and of
\* any two operations that have been called one is complete: a table's first
\* query is submitted only after the table started before it had all its
\* queries observed SUCCEEDED.
C6_OneAtATime ==
  /\ Cardinality({i \in Slots : InProgress(i)}) <= 1
  /\ Cardinality(InFlight) <= 1
  /\ {id \in 1..Len(executions) : executions[id].state \in NonTerminal} \subseteq InFlight
  /\ \A i, j \in Slots :
       (i # j /\ Started(i) /\ Started(j)) => (ops[i].pc = "done" \/ ops[j].pc = "done")

\* the first table is complete and the DROP of the second is in flight
C6_Witness ==
  /\ BatchHook /\ N = 2
  /\ ops[1].pc = "done" /\ ops[2].pc = "dropWait"
  /\ executions[ops[2].id].state = "RUNNING"

----------------------------------------------------------------------------
(* C7 *)

\* The event loop runs every callback and timer that is ready and the service
\* answers every request and finishes every execution: a step that can be
\* taken is eventually taken.
FairSpec == Spec /\ WF_vars(Next)

\* a status check of an operation was itself rejected
StatusCheckFailed == \E i \in Slots : ops[i].pc = "hung"

\* the execution an operation waits for has FAILED or was CANCELLED
ExecutionFailed ==
  \E i \in Slots : Waiting(i) /\ executions[ops[i].id].state \in {"FAILED", "CANCELLED"}

\* C7: whenever a validation check fails, a submission is rejected, a status
\* check itself fails, the DDL file cannot be read or an execution reaches
\* FAILED or CANCELLED, the hook eventually ends rejected.
\* TLC finds the run in which getQueryExecution is rejected: the promise of
\* waitForAthenaQuery is then never settled and the hook stays pending.
C7_FailuresSurface ==
  [](Failed \/ StatusCheckFailed \/ ExecutionFailed => <>(outcome = "rejected"))

\* every failure other than that of a status check does end the hook rejected
\* as long as no status check fails
C7_OtherFailuresSurface ==
  []((Failed \/ ExecutionFailed) =>
       <>(outcome = "rejected" \/ StatusCheckFailed))

----------------------------------------------------------------------------
(* C8 *)

AllValid == N >= 1 /\ \A i \in 1..N : ~Invalid(Table(i))

\* the table names of the configuration
Configured == {Table(i).TableName : i \in 1..N}

\* C8: sls deploy followed by sls remove, over valid tables that share one
\* OutputLocation, against a service that starts with no tables and does
\* nothing but execute the queries: no hook fails; when the deploy lifecycle
\* has completed the tables present are exactly the configured table names,
\* and when the remove lifecycle has completed no table is present.
C8_EndToEnd ==
  (/\ lifecycle = <<HookValidate, HookCreate, HookDelete>>
   /\ AllValid
   /\ initialTables = {}
   /\ ~anomaly) =>
     /\ outcome # "rejected"
     /\ (pos = 2 /\ outcome = "resolved") => remoteTables = Configured
     /\ (pos = 3 /\ outcome = "resolved") => remoteTables = {}

\* two valid tables, the remove lifecycle completed after the deploy lifecycle
C8_Witness ==
  /\ lifecycle = <<HookValidate, HookCreate, HookDelete>>
  /\ N = 2 /\ AllValid /\ initialTables = {} /\ ~anomaly
  /\ pos = 3 /\ outcome = "resolved"
  /\ Len(executions) = 6
  /\ remoteTables = {}

\* two valid tables, the deploy lifecycle completed: both tables are present
C8_WitnessDeployed ==
  /\ lifecycle = <<HookValidate, HookCreate, HookDelete>>
  /\ N = 2 /\ AllValid /\ initialTables = {} /\ ~anomaly
  /\ pos = 2 /\ outcome = "resolved"
  /\ remoteTables = {TableNames[1], TableNames[2]}

----------------------------------------------------------------------------
(* C9 *)

\* every combination of present and absent fields of one table definition
Definitions ==
  { [ DDL              |-> ddl,
      DDLFile          |-> file,
      OutputLocation   |-> out,
      TableName        |-> name,
      DatabaseName     |-> db,
      DDLSubstitutions |-> IF file # "" THEN << <<"TableName", <<TableNames[1]>> >> >>
                           ELSE << >> ] :
      ddl \in {<< >>, <<"CREATE", TableNames[1]>>},
      file \in {"", KeyNames[1]},
      out \in {"", "s3://out"},
      name \in {"", TableNames[1]},
      db \in {"", "db"} }

\* the plugin over a mapping of one table whose definition is any of them
InitValidate == \E d \in Definitions : InitWith(<<d>>)

SpecValidate == InitValidate /\ [][Next]_vars

\* C9: validateAthenaTable throws its Error exactly for the definitions with
\* neither or both DDL sources, without OutputLocation or without TableName,
\* and succeeds for every other; it logs the DatabaseName warning exactly when
\* it succeeds on a definition without DatabaseName. A createAthenaTable that
\* was called on an invalid definition has failed with that Error, naming the
\* table's key, and has submitted no query; one called on a valid definition
\* has logged the warning exactly if DatabaseName is missing.
C9_Validate ==
  \A i \in Slots :
    LET t == Table(i)
        v == validateAthenaTable(Key(i), t)
    IN /\ (t.DDL = << >> /\ t.DDLFile = "") => v.error.kind = "validation"
       /\ (t.DDL # << >> /\ t.DDLFile # "") => v.error.kind = "validation"
       /\ t.OutputLocation = "" => v.error.kind = "validation"
       /\ t.TableName = "" => v.error.kind = "validation"
       /\ ~Invalid(t) => v.error = NoError /\ (v.warned <=> t.DatabaseName = "")
       /\ v.error.kind = "validation" => v.error.table = Key(i) /\ ~v.warned
       /\ (kind = "create" /\ Started(i) /\ Invalid(t)) =>
            /\ ops[i].pc = "failed" /\ ops[i].id = 0
            /\ outcome = "rejected"
            /\ error.kind = "validation" /\ error.table = Key(i)
            /\ Key(i) \notin warnings
       /\ (kind = "create" /\ Started(i) /\ ~Invalid(t)) =>
            (Key(i) \in warnings <=> t.DatabaseName = "")
       /\ (kind = "create" /\ Started(i) /\ ~Invalid(t) /\ ~anomaly) =>
            ops[i].pc # "failed"

\* a definition whose only missing field is DatabaseName was validated: the
\* warning is logged and the operation goes on to its DROP
C9_Witness ==
  /\ N = 1 /\ kind = "create"
  /\ ~Invalid(Table(1)) /\ Table(1).DatabaseName = ""
  /\ KeyNames[1] \in warnings
  /\ ops[1].pc = "dropWait"

\* a definition with both DDL sources was rejected before any query
C9_WitnessBoth ==
  /\ N = 1 /\ kind = "create"
  /\ Table(1).DDL # << >> /\ Table(1).DDLFile # ""
  /\ Table(1).OutputLocation # "" /\ Table(1).TableName # ""
  /\ outcome = "rejected" /\ error.kind = "validation"
  /\ executions = << >>

----------------------------------------------------------------------------
(* C10 *)

\* C10: the DROP an operation waits for carries IF EXISTS exactly when it is
\* the pre-clean step of createAthenaTable; when the lifecycle is a remove
\* (hook or command, with or without --table) no DROP carries it. So, with a
\* service that only executes the queries, creating a valid table never fails
\* (whether or not the table was present) and completes with the table
\* present, while an explicit remove fails - the hook rejected with `Query
\* status FAILED` - exactly on a table that is absent.
C10_IfExistsOnlyOnPreClean ==
  /\ \A i \in Slots :
       ops[i].pc = "dropWait" =>
         /\ IsDrop(ops[i].id)
         /\ executions[ops[i].id].params.QueryString[3]
              = (IF kind = "create" THEN "IF EXISTS" ELSE "")
  /\ lifecycle \in {<<HookDelete>>, <<HookRemoveCmd>>} =>
       \A id \in 1..Len(executions) :
         IsDrop(id) /\ executions[id].params.QueryString[3] = ""
  /\ ~anomaly =>
       \A i \in Slots :
         /\ (kind = "create" /\ ~Invalid(Table(i))) =>
              /\ ops[i].pc # "failed"
              /\ ops[i].pc = "done" => Table(i).TableName \in remoteTables
         /\ (kind = "delete" /\ Len(lifecycle) = 1 /\ ops[i].pc \in {"done", "failed"}) =>
              /\ ops[i].pc = "failed" <=> Table(i).TableName \notin initialTables
              /\ ops[i].pc = "failed" =>
                   outcome = "rejected" /\ error = StatusError("FAILED")

\* sls remove athenatables --table k1 on a table that is absent: the DROP
\* without IF EXISTS has FAILED and the command is rejected
C10_Witness ==
  /\ lifecycle = <<HookRemoveCmd>> /\ options.table = KeyNames[1]
  /\ ~anomaly /\ ~Invalid(Table(1)) /\ initialTables = {}
  /\ Len(executions) = 1 /\ executions[1].state = "FAILED"
  /\ executions[1].params.QueryString = <<"DROP", "TABLE", "", TableNames[1]>>
  /\ outcome = "rejected"

\* sls deploy athenatables --table k1 on a table that is absent: the DROP IF
\* EXISTS and the CREATE have SUCCEEDED and the command is fulfilled
C10_WitnessCreate ==
  /\ lifecycle = <<HookDeployCmd>> /\ options.table = KeyNames[1]
  /\ ~anomaly /\ initialTables = {}
  /\ Len(executions) = 2
  /\ executions[1].params.QueryString = <<"DROP", "TABLE", "IF EXISTS", TableNames[1]>>
  /\ outcome = "resolved" /\ remoteTables = {TableNames[1]}

----------------------------------------------------------------------------
(* C11 *)

\* the keys of custom.athenaTables
OwnKeys == {KeyNames[i] : i \in 1..N}

\* sls deploy athenatables or sls remove athenatables, with --table
NamedCommand ==
  /\ lifecycle \in {<<HookDeployCmd>>, <<HookRemoveCmd>>}
  /\ options.table # ""
  /\ pos = 1

\* C11: when the create or the delete command has run with a --table name
\* that is not a key of custom.athenaTables, the command has failed with the
\* not-found Error and no query has been submitted, whatever tables are
\* configured.
\* The code tests athenaTables[this.options.table] for truthiness, and the
\* mapping is a plain object: under a name it inherits from Object.prototype
\* (constructor, toString, ...) the lookup finds a function. The remove command
\* then calls deleteAthenaTable on it and submits `DROP TABLE  undefined`; the
\* deploy command fails with the validation Error instead of not-found.
C11_UnknownTableName ==
  (NamedCommand /\ options.table \notin OwnKeys) =>
    /\ outcome = "rejected"
    /\ error = NotFoundError
    /\ executions = << >>

\* under a name for which the lookup gives undefined the commands do fail
\* with the not-found Error without submitting anything
C11_UndefinedLookup ==
  (NamedCommand /\ Lookup(athenaTables, options.table) = 0) =>
    /\ outcome = "rejected"
    /\ error = NotFoundError
    /\ executions = << >>
    /\ \A i \in Slots : ops[i] = IdleOp

\* two tables are configured and the command was given a name that is neither
\* a key nor inherited
C11_WitnessUndefined ==
  /\ NamedCommand /\ N = 2 /\ options.table = UnknownKey
  /\ outcome = "rejected" /\ error = NotFoundError

----------------------------------------------------------------------------
(* C12 *)

\* the table a query names: the last word of a DROP, the word after CREATE
QueryTable(id) ==
  LET q == executions[id].params.QueryString
  IN IF q[1] = "DROP" THEN q[4] ELSE q[2]

\* sls deploy athenatables or sls remove athenatables, without --table
UnnamedCommand ==
  /\ lifecycle \in {<<HookDeployCmd>>, <<HookRemoveCmd>>}
  /\ options.table = ""
  /\ pos = 1

\* C12: when the create or the delete command has run with the key of a
\* configured table, the operation is that table's alone: every query
\* submitted is the DROP or the CREATE of that table's definition and names
\* its TableName, and no operation was called for any other table. When the
\* command has run without --table over a non-empty mapping, the operation
\* (create for deploy, delete for remove) runs over every configured table:
\* the batch holds all of them, while none has failed each one is called or
\* queued, and the command is fulfilled only when all are complete.
C12_CommandScope ==
  /\ (NamedCommand /\ options.table \in OwnKeys) =>
       LET i == Lookup(athenaTables, options.table)
       IN /\ Key(i) = options.table
          /\ entries = <<i>>
          /\ \A id \in 1..Len(executions) :
               /\ QueryTable(id) = Table(i).TableName \/ Table(i).TableName = ""
               /\ \A j \in 1..N : j # i => QueryTable(id) # Table(j).TableName
               /\ executions[id].params \in
                    {deleteAthenaTable(Table(i), kind = "create"), createAthenaTable(Table(i))}
          /\ \A j \in Slots : j # i => ops[j] = IdleOp
  /\ (UnnamedCommand /\ N > 0) =>
       /\ kind = (IF lifecycle = <<HookDeployCmd>> THEN "create" ELSE "delete")
       /\ entries = AllPositions
       /\ ~Failed => \A i \in 1..N : ops[i].pc # "idle"
       /\ outcome = "resolved" => \A i \in 1..N : ops[i].pc = "done"

\* sls deploy athenatables --table k2 over two tables has completed: the DROP
\* and the CREATE of the second table, nothing for the first
C12_Witness ==
  /\ NamedCommand /\ N = 2 /\ options.table = KeyNames[2]
  /\ kind = "create" /\ outcome = "resolved"
  /\ Len(executions) = 2
  /\ QueryTable(1) = TableNames[2] /\ QueryTable(2) = TableNames[2]

\* sls remove athenatables over two tables has completed: both were dropped
C12_WitnessAll ==
  /\ UnnamedCommand /\ N = 2 /\ kind = "delete" /\ outcome = "resolved"
  /\ Len(executions) = 2
  /\ {QueryTable(1), QueryTable(2)} = {TableNames[1], TableNames[2]}

----------------------------------------------------------------------------
(* C13 *)

\* the largest number of words of a DDL text after its first
MaxText == 2

Tokens == {"TableName", "S3Location"}

\* the words a DDL text goes on with: the placeholders
Words == {Braced[t] : t \in Tokens}

\* DDL texts: CREATE followed by up to MaxText words
Texts ==
  UNION { { <<"CREATE">> \o body : body \in [1..n -> Words] } : n \in 0..MaxText }

\* replacement strings: a table name, a placeholder, and the strings that
\* String.prototype.replace reads as patterns
Values == { <<TableNames[1]>>, <<Braced["S3Location"]>>, <<"$$">>, <<"$&">>, <<"$`">>,
            <<"$'">> }

\* the replacement strings of the mappings of two entries
PairValues == { <<TableNames[1]>>, <<Braced["S3Location"]>>, <<"$&">> }

\* DDLSubstitutions: up to two entries under different tokens, in either order
Substitutions ==
  {<< >>} \cup { <<e>> : e \in Tokens \X Values }
          \cup { <<e, f>> : e \in {"TableName"} \X PairValues,
                            f \in {"S3Location"} \X PairValues }
          \cup { <<e, f>> : e \in {"S3Location"} \X PairValues,
                            f \in {"TableName"} \X PairValues }

\* one table with an inline DDL text or a DDL file, and DDLSubstitutions
DDLDefinitions ==
  { [ DDL |-> text, DDLFile |-> "", OutputLocation |-> "s3://out",
      TableName |-> TableNames[1], DatabaseName |-> "db", DDLSubstitutions |-> subs ] :
      text \in Texts, subs \in Substitutions }
  \cup
  { [ DDL |-> << >>, DDLFile |-> KeyNames[1], OutputLocation |-> "s3://out",
      TableName |-> TableNames[1], DatabaseName |-> "db", DDLSubstitutions |-> subs ] :
      subs \in Substitutions }

\* the plugin over a mapping of one such table
InitDDL == \E d \in DDLDefinitions : InitWith(<<d>>)

SpecDDL == InitDDL /\ [][Next]_vars

\* the replacement the specification describes: the first occurrence of the
\* pattern gives way to the value itself
ReplaceLiteral(text, pattern, value) ==
  IF \E p \in 1..Len(text) : text[p] = pattern
  THEN LET p == CHOOSE q \in 1..Len(text) :
                  /\ text[q] = pattern
                  /\ \A r \in 1..(q - 1) : text[r] # pattern
       IN SubSeq(text, 1, p - 1) \o value \o SubSeq(text, p + 1, Len(text))
  ELSE text

RECURSIVE SubstituteLiteral(_, _)
SubstituteLiteral(ddl, subs) ==
  IF subs = << >> THEN ddl
  ELSE SubstituteLiteral(ReplaceLiteral(ddl, Braced[Head(subs)[1]], Head(subs)[2]),
                         Tail(subs))

\* the DDL text createAthenaTable starts from
SourceDDL(table) == IF table.DDLFile # "" THEN FileContent(table.DDLFile) ELSE table.DDL

\* no replacement string holds a pattern of String.prototype.replace
PlainValues(subs) ==
  \A p \in 1..Len(subs) : subs[p][2] \notin {<<"$$">>, <<"$&">>, <<"$`">>, <<"$'">>}

\* C13: the CREATE query createAthenaTable submits is the DDL text in which,
\* for each (token, value) of DDLSubstitutions in order, exactly the first
\* occurrence of {token} in the current text has given way to value, later
\* occurrences being untouched; with no substitutions, or with tokens that do
\* not occur, it is the DDL text itself.
\* The value is passed to String.prototype.replace as a replacement string, in
\* which $$, $&, $` and $' are patterns: TLC finds the substitution
\* {TableName: "$$"}, which puts $ where the specification puts $$.
C13_FirstOccurrenceOnly ==
  \A i \in 1..N :
    ops[i].pc = "createWait" =>
      executions[ops[i].id].params.QueryString
        = SubstituteLiteral(SourceDDL(Table(i)), Table(i).DDLSubstitutions)

\* with replacement strings free of those patterns the query is the text the
\* specification describes
C13_PlainValues ==
  \A i \in 1..N :
    (ops[i].pc = "createWait" /\ PlainValues(Table(i).DDLSubstitutions)) =>
      executions[ops[i].id].params.QueryString
        = SubstituteLiteral(SourceDDL(Table(i)), Table(i).DDLSubstitutions)

\* a text with two {TableName}: the first gave way to the table name, the
\* second is still there
C13_WitnessSecondKept ==
  /\ N = 1 /\ ops[1].pc = "createWait"
  /\ Table(1).DDL = <<"CREATE", "{TableName}", "{TableName}">>
  /\ Table(1).DDLSubstitutions = << <<"TableName", <<TableNames[1]>> >> >>
  /\ executions[ops[1].id].params.QueryString = <<"CREATE", TableNames[1], "{TableName}">>

----------------------------------------------------------------------------
(* C14 *)

\* a mapping of more tables than two, each with an inline DDL or a DDL file
OrderTables == MaxTables + 1

InitOrder ==
  \E s \in [1..OrderTables -> {"inline", "file"}] :
    /\ InitWith([i \in 1..OrderTables |-> TableDef(s[i], i)])
    /\ remoteTables \in {{}, {TableNames[i] : i \in 1..OrderTables}}

SpecOrder == InitOrder /\ [][Next]_vars

\* C14: in createAll and deleteAll the operations start in the order of the
\* mapping: whenever the operation of a table has been called, so has the
\* operation of every table before it, and the queries submitted in the batch
\* name the tables in configuration order.
\* Promise.map with a concurrency limit calls the mapper on the first entry,
\* queues the others and takes them from the end of the queue: over three
\* tables TLC finds the third table started while the second is still queued.
C14_InsertionOrder ==
  BatchHook =>
    \A i, j \in 1..N : (i < j /\ Started(j)) => Started(i)

\* over two tables the operations do start in the order of the mapping
C14_TwoTablesInOrder ==
  (BatchHook /\ N <= 2) =>
    \A i, j \in 1..N : (i < j /\ Started(j)) => Started(i)

----------------------------------------------------------------------------
(* C15 *)

\* the plugin over one table of any definition, with the event loop running
\* every callback and timer that is ready and the service making progress
FairSpecValidate == SpecValidate /\ WF_vars(Next)

\* the operation at position i waits for an execution whose state is one of
\* the given ones
Polling(i, states) ==
  /\ i \in Slots
  /\ Waiting(i)
  /\ executions[ops[i].id].state \in states

\* C15: as long as no status check is itself rejected, and with the event
\* loop and the service making progress (fairness): a wait whose execution has
\* reached SUCCEEDED, FAILED or CANCELLED eventually ends, and a wait ends only
\* by being settled for its own execution, in a terminal state, each execution
\* being settled at most once; a step of the plugin taken while the execution
\* is QUEUED or RUNNING leaves the wait going, unsettled, for the same
\* execution, however many checks came before (no retry limit, no timeout).
C15_PollUntilTerminal ==
  /\ \A i \in 1..(MaxTables + 1) :
       [](Polling(i, Terminal) => <>(~Polling(i, Terminal) \/ StatusCheckFailed))
  /\ [][\A i \in Slots :
          (Waiting(i) /\ ~Waiting(i)' /\ ops'[i].pc # "hung") =>
            /\ settled'.id = ops[i].id
            /\ settled'.result # "none"
            /\ executions[ops[i].id].state \in Terminal]_vars
  /\ [][settled' # settled => settled'.id > settled.id]_vars
  /\ [][\A i \in Slots :
          (Polling(i, NonTerminal) /\ executions' = executions /\ ops'[i].pc # "hung") =>
            /\ Waiting(i)'
            /\ ops'[i].id = ops[i].id
            /\ settled' = settled]_vars

\* a wait has been returned QUEUED or RUNNING as often as the model lets it,
\* the execution is still RUNNING, and the wait goes on
C15_Witness ==
  \E i \in Slots :
    /\ Polling(i, {"RUNNING"})
    /\ Len(ops[i].observed) = MaxChecks - 1
    /\ settled.id # ops[i].id

\* after that many checks the execution was CANCELLED and the wait rejected
C15_WitnessLate ==
  /\ Len(settled.observed) = MaxChecks
  /\ Last(settled.observed) = "CANCELLED"
  /\ settled.result = "rejected"

----------------------------------------------------------------------------
(* C16 *)

\* validateAthenaTable throws on the definition at position i
FailsValidation(i) == validateAthenaTable(Key(i), Table(i)).error.kind # "none"

\* C16: during a create, the operation of a definition that fails validation
\* never goes past its validation: it is not called yet or it has failed, it
\* never waits to submit, never waits for an execution and never comes to
\* resolve its DDL (where the DDL file is read); it has no execution of its
\* own, no query of that definition (pre-clean DROP or CREATE) has been
\* submitted - none at all when it is the only table - and once it was called
\* the failure is the validation Error.
C16_ValidateBeforeRemote ==
  \A i \in Slots :
    (kind = "create" /\ FailsValidation(i)) =>
      /\ ops[i].pc \in {"idle", "queued", "failed"}
      /\ ops[i].id = 0
      /\ \A id \in 1..Len(executions) :
           executions[id].params \notin
             {deleteAthenaTable(Table(i), TRUE), createAthenaTable(Table(i))}
      /\ Started(i) =>
           /\ ops[i].pc = "failed"
           /\ outcome = "rejected"
           /\ error = validateAthenaTable(Key(i), Table(i)).error
      /\ (N = 1 /\ i = 1) => executions = << >>

\* a definition with a DDL file and no OutputLocation: createAthenaTable has
\* failed and nothing was submitted
C16_Witness ==
  /\ N = 1 /\ kind = "create" /\ ops[1].pc = "failed"
  /\ Table(1).DDLFile # "" /\ Table(1).DDL = << >>
  /\ Table(1).OutputLocation = "" /\ Table(1).TableName # ""
  /\ error.kind = "validation"
  /\ executions = << >> /\ ~anomaly

----------------------------------------------------------------------------
(* C17 *)

\* the operation at position i is the one whose failure rejected the hook
FailedWith(i, errorKind) ==
  /\ ops[i].pc = "failed"
  /\ outcome = "rejected"
  /\ error.kind = errorKind

\* C17: when an operation has failed because its execution reached FAILED or
\* CANCELLED, the failure the hook is rejected with names the table (its key
\* or its TableName) and the terminal state observed; when it has failed
\* validation, the failure names the table and gives the validation reason.
\* waitForAthenaQuery rejects with the string `Query status ${state}` and
\* nothing adds to it on the way to the hook: TLC finds the hook rejected
\* with a failure that names no table.
C17_FailureNamesTable ==
  \A i \in Slots :
    /\ FailedWith(i, "status") =>
         /\ error.table # ""
         /\ error.table \in {Key(i), Table(i).TableName}
         /\ error.reason \in {"FAILED", "CANCELLED"}
         /\ error.reason = Last(settled.observed)
    /\ FailedWith(i, "validation") =>
         /\ error.table = Key(i)
         /\ error.reason # ""

\* the failure of an execution does carry the terminal state observed, and
\* the failure of a validation the key of the table and the reason
C17_StateAndValidation ==
  \A i \in Slots :
    /\ FailedWith(i, "status") =>
         /\ error.reason \in {"FAILED", "CANCELLED"}
         /\ error.reason = Last(settled.observed)
         /\ error.reason = executions[settled.id].state
    /\ FailedWith(i, "validation") =>
         /\ error = validateAthenaTable(Key(i), Table(i)).error
         /\ error.table = Key(i)
         /\ error.reason # ""

----------------------------------------------------------------------------
(* C18 *)

\* how far an operation has come
Stage(pc) ==
  CASE pc \in {"idle", "queued"} -> 0
    [] pc = "start" -> 1
    [] pc = "dropWait" -> 2
    [] pc = "resolveDDL" -> 3
    [] pc = "createWait" -> 4
    [] OTHER -> 5

\* C18: no query is submitted twice. Every submission is the one step of an
\* operation from before its DROP to waiting for it, or from resolving its
\* DDL to waiting for its CREATE, and creates exactly one execution, for which
\* that operation then waits; within a hook an operation only moves forward,
\* so it makes each of these steps at most once and (the tables of a mapping
\* having different names) no two executions hold the same query; an operation whose submission is rejected fails in that
\* step, with no execution created, and a failed operation submits nothing
\* and stays failed; while an operation polls, no execution is created and the
\* id it polls does not change.
C18_NoResubmission ==
  /\ [](\A a, b \in 1..Len(executions) :
          a # b => executions[a].params # executions[b].params)
  /\ [][Len(executions') # Len(executions) =>
          /\ Len(executions') = Len(executions) + 1
          /\ \E i \in Slots :
               /\ ops[i].pc \in {"start", "resolveDDL"}
               /\ ops'[i].pc = (IF ops[i].pc = "start" THEN "dropWait" ELSE "createWait")
               /\ ops'[i].id = Len(executions')
               /\ executions'[ops'[i].id].params =
                    (IF ops[i].pc = "start"
                     THEN deleteAthenaTable(Table(i), kind = "create")
                     ELSE createAthenaTable(Table(i)))]_vars
  /\ [][\A i \in Slots :
          /\ pos' = pos => Stage(ops'[i].pc) >= Stage(ops[i].pc)
          /\ (ops[i].pc \in {"start", "resolveDDL"} /\ ops'[i].pc = "failed") =>
               executions' = executions /\ outcome' = "rejected"
          /\ ops[i].pc = "failed" =>
               ops'[i].pc = "failed" /\ Len(executions') = Len(executions)
          /\ Waiting(i) =>
               /\ Len(executions') = Len(executions)
               /\ Waiting(i)' => ops'[i].id = ops[i].id]_vars

\* the pre-clean DROP of a create has SUCCEEDED and the submission of the
\* CREATE was rejected: the operation has failed and the DROP is the only
\* execution
C18_Witness ==
  /\ N = 1 /\ kind = "create"
  /\ ops[1].pc = "failed" /\ error = SubmitError
  /\ Len(executions) = 1 /\ executions[1].state = "SUCCEEDED"

\* a create has completed with its DROP and its CREATE submitted once each
C18_WitnessOnce ==
  /\ N = 1 /\ kind = "create" /\ ops[1].pc = "done"
  /\ Len(executions) = 2 /\ executions[1].params # executions[2].params

----------------------------------------------------------------------------
(* C19 *)

\* the create at position i has failed after its pre-clean DROP SUCCEEDED: in
\* resolving its DDL (the operation still holds the id of the DROP) or on its
\* CREATE execution
FailedAfterPreClean(i) ==
  /\ kind = "create"
  /\ ops[i].pc = "failed"
  /\ ops[i].id >= 1
  /\ \/ IsDrop(ops[i].id) /\ executions[ops[i].id].state = "SUCCEEDED"
     \/ IsCreate(ops[i].id)

\* C19: when createAthenaTable has failed after its pre-clean DROP SUCCEEDED
\* (DDL file unreadable, CREATE submission rejected, CREATE execution FAILED
\* or CANCELLED), the table is absent from the service, whether or not it was
\* there before, and it stays absent: nothing is submitted to put it back.
C19_CreateNotAtomic ==
  /\ [](\A i \in Slots :
          FailedAfterPreClean(i) =>
            /\ Table(i).TableName \notin remoteTables
            /\ error \in {ReadError, SubmitError, StatusError("FAILED"),
                           StatusError("CANCELLED")}
            /\ error = ReadError => Table(i).DDLFile # "")
  /\ [][\A i \in Slots :
          FailedAfterPreClean(i) =>
            remoteTables' = remoteTables /\ executions' = executions]_vars

\* the table was there, its DDL file could not be read after the pre-clean
\* DROP: the table is gone
C19_Witness ==
  /\ N = 1 /\ FailedAfterPreClean(1)
  /\ error = ReadError
  /\ Table(1).TableName \in initialTables
  /\ Table(1).TableName \notin remoteTables

\* the table was there and the CREATE execution was CANCELLED: the table is
\* gone
C19_WitnessCancelled ==
  /\ N = 1 /\ FailedAfterPreClean(1)
  /\ error = StatusError("CANCELLED") /\ IsCreate(ops[1].id)
  /\ Table(1).TableName \in initialTables
  /\ remoteTables = {}

----------------------------------------------------------------------------
(* C20 *)

\* C20: in a delete - the post-remove hook or the remove command, over the
\* mapping or for one table - no definition is validated: the hook is never
\* rejected with a validation Error and no warning is logged; the first table
\* of the delete is called whatever its definition, a table that was called
\* waits to submit its DROP or has been through the submission, and the DROP
\* an operation waits for is the DROP of its definition as it is (`DROP TABLE
\* undefined` for a definition without TableName).
C20_DeleteNeverValidates ==
  kind = "delete" =>
    /\ error.kind # "validation"
    /\ Len(lifecycle) = 1 => warnings = {}
    /\ Started(entries[1])
    /\ \A i \in Slots :
         /\ Started(i) => (ops[i].pc = "start" \/ ops[i].id >= 1 \/ error = SubmitError)
         /\ ops[i].pc = "dropWait" =>
              executions[ops[i].id].params = deleteAthenaTable(Table(i), FALSE)

\* sls remove over a definition with no DDL source and no TableName: the DROP
\* has been submitted
C20_Witness ==
  /\ N = 1 /\ lifecycle = <<HookDelete>> /\ kind = "delete"
  /\ Table(1).DDL = << >> /\ Table(1).DDLFile = "" /\ Table(1).TableName = ""
  /\ ops[1].pc = "dropWait"
  /\ executions[1].params.QueryString = <<"DROP", "TABLE", "", Undefined>>

====
